---- MODULE Spec2Model ----
(***************************************************************************)
(* Monte Carlo search for the Traveling Salesman Problem (tsp.c).          *)
(*                                                                         *)
(* The model follows main() statement by statement: option parsing with    *)
(* getopt, the three checks that follow it, distance_matrix, the search    *)
(* loop (create_path, measure_path, print_path, the incumbent update,      *)
(* free) and the final report and cleanup.                                 *)
(*                                                                         *)
(* Numbers.  The program computes in float (lengths, distances,            *)
(* coordinates), double (pow, sqrt) and long double (the loop counter and  *)
(* the trial count).  The model keeps the rounding and the overflow of     *)
(* these types at a reduced width: a float is a natural number with a      *)
(* MantBits-bit significand and an exponent of 0..MaxExp, rounded to       *)
(* nearest, ties to even, and overflowing to FInf; a long double is a      *)
(* natural number with an LMantBits-bit significand.  double, which has    *)
(* more than twice the precision and range of float, is taken as exact.    *)
(***************************************************************************)
EXTENDS Integers, Sequences, FiniteSets, TLC

\* ------------------------------------------------------------------ bounds
MantBits == 2    \* significand width of the scaled float
MaxExp == 2      \* largest exponent of the scaled float
LMantBits == 2   \* significand width of the scaled long double
CoordMax == 2    \* coordinates of the exhaustive inputs are 0..CoordMax
MaxCities == 3   \* city count of the exhaustive inputs is 1..MaxCities
MaxIter == 3     \* small trial counts 0..MaxIter
MaxArgs == 3     \* number of command-line items (an option with its argument,
                 \* or a word that is no option) after argv[0]

\* ------------------------------------------------- floating-point numbers
RECURSIVE UlpOf(_, _)
\* the distance between neighbouring p-bit numbers around x
UlpOf(x, p) == IF x < 2^p THEN 1 ELSE 2 * UlpOf(x \div 2, p)

\* x rounded to a p-bit significand, to nearest, ties to even
RoundNearestEven(x, p) ==
  LET u == UlpOf(x, p)
      q == x \div u
      r == x % u
  IN  IF 2 * r < u THEN q * u
      ELSE IF 2 * r > u THEN (q + 1) * u
      ELSE IF q % 2 = 0 THEN q * u ELSE (q + 1) * u

\* FLT_MAX, the largest finite float, and +infinity
FLT_MAX == (2^MantBits - 1) * 2^MaxExp
FInf == 2^(MantBits + MaxExp)

\* a non-negative real number converted to float
FloatRound(x) ==
  LET r == RoundNearestEven(x, MantBits)
  IN  IF r > FLT_MAX THEN FInf ELSE r

\* the floats themselves: every finite value and +infinity
FloatVals == {FloatRound(x) : x \in 0..FInf}

\* float + float (both non-negative; +infinity absorbs)
FAdd(a, b) == FloatRound(a + b)

\* float - float, as sign and magnitude (both operands finite)
FSub(a, b) == IF a >= b THEN FloatRound(a - b) ELSE 0 - FloatRound(b - a)

\* sqrt of a non-negative integer, correctly rounded to float
FSqrt(s) ==
  LET f  == CHOOSE k \in 0..s : k * k <= s /\ (k + 1) * (k + 1) > s
      u  == UlpOf(f, MantBits)
      lo == (f \div u) * u
      hi == lo + u
      m2 == (2 * lo + u) * (2 * lo + u)
      r  == IF 4 * s < m2 THEN lo
            ELSE IF 4 * s > m2 THEN hi
            ELSE IF (lo \div u) % 2 = 0 THEN lo ELSE hi
  IN  IF r > FLT_MAX THEN FInf ELSE r

\* long double: rounding of a non-negative number, and addition
LRound(x) == RoundNearestEven(x, LMantBits)
LAdd(a, b) == LRound(a + b)

\* strtold on a string of decimal digits whose value is v
strtold(v) == LRound(v)

\* ------------------------------------------------------- the pure functions
\* a table entry with one index mistaken: x of city a against y of city b
DistanceEntry_WrongIndex(c, a, b) ==
  LET dx == FSub(c[a][1], c[b][2])
      dy == FSub(c[a][2], c[b][2])
  IN  FSqrt(dx * dx + dy * dy)

\* distance_matrix: the table computed from the coordinates
DistanceEntry(c, a, b) ==
  LET dx == FSub(c[a][1], c[b][1])
      dy == FSub(c[a][2], c[b][2])
  IN  FSqrt(dx * dx + dy * dy)

distance_matrix(c, n) ==
  [a \in 1..n |-> [b \in 1..n |-> DistanceEntry(c, a, b)]]

\* cities are numbered 0..n-1 in the program; row and column k of the
\* table, and entry k of a path, are element k+1 of the model's sequences
Cell(d, a, b) == d[a + 1][b + 1]

RECURSIVE MeasureFrom(_, _, _, _, _)
\* the loop of measure_path from index k with the running sum l
MeasureFrom(d, n, p, k, l) ==
  IF k < n
    THEN MeasureFrom(d, n, p, k + 1, FAdd(l, Cell(d, p[k + 1], p[k + 2])))
    ELSE l

\* a measure that leaves out the edge back to the start
measure_path_open(d, n, p) == MeasureFrom(d, n - 1, p, 0, 0)

measure_path(d, n, p) == MeasureFrom(d, n, p, 0, 0)

\* randperm(n, buf): buf[0..n-1] is set to a permutation of 0..n-1; the set
\* of the buffers one call can leave
randperm(n) ==
  {p \in [1..n -> 0..(n - 1)] : \A a, b \in 1..n : p[a] = p[b] => a = b}

\* a path whose last entry repeats the entry before it
ClosePath_LastRepeated(n, perm) ==
  [k \in 1..(n + 1) |-> IF k <= n THEN perm[k] ELSE perm[n]]

\* create_path: a buffer of n+1 entries, randperm on the first n, and the
\* last set to the first
ClosePath(n, perm) == [k \in 1..(n + 1) |-> IF k <= n THEN perm[k] ELSE perm[1]]

create_path(n) == {ClosePath(n, perm) : perm \in randperm(n)}

\* array_copy(&path, &min_path, num_city): a fresh copy of the tour
array_copy(p, n) == [k \in 1..(n + 1) |-> p[k]]

\* ---------------------------------------------------------- command line
\* The argument of -n: a word that is an integer with value val, or not
NArg(isInt, v) == [int |-> isInt, val |-> v]
\* The argument of -m: a word that is a non-negative number, or not
MArg(isNum, v) == [num |-> isNum, val |-> v]
\* One line of a coordinate file: "x y", or anything else
CoordLine(x, y) == [ok |-> TRUE, x |-> x, y |-> y]
BadLine == [ok |-> FALSE, x |-> 0, y |-> 0]
File(exists, lines) == [exists |-> exists, lines |-> lines]

is_integer(a) == a.int
is_positive_number(a) == a.num
atoi(a) == a.val
is_coordinate(line) == line.ok

\* read_file: 0 when the file cannot be opened, -1 at the first line that
\* is no coordinate pair, else the number of lines (0 for an empty file)
read_file(f) ==
  IF ~f.exists THEN 0
  ELSE IF \E k \in 1..Len(f.lines) : ~is_coordinate(f.lines[k]) THEN 0 - 1
  ELSE Len(f.lines)

\* the matrix read_file leaves in *array: fscanf("%f") of every number
read_file_array(f) ==
  [k \in 1..Len(f.lines) |-> <<FloatRound(f.lines[k].x), FloatRound(f.lines[k].y)>>]

\* the trial count at which i++ no longer changes i, and one that is not a
\* long double (strtold rounds it)
BigIter == 2^LMantBits + 2
IterVals == (0..MaxIter) \cup {BigIter - 1, BigIter}

NArgs == {NArg(FALSE, 0)} \cup {NArg(TRUE, v) : v \in IterVals}
MArgs == {MArg(FALSE, 0)} \cup {MArg(TRUE, v) : v \in 0..3}

\* coordinate files of the whole-program runs
Files ==
  { File(FALSE, <<>>),
    File(TRUE, <<>>),
    File(TRUE, <<CoordLine(0, 0), BadLine>>),
    File(TRUE, <<CoordLine(0, 0)>>),
    File(TRUE, <<CoordLine(0, 0), CoordLine(1, 0)>>),
    File(TRUE, <<CoordLine(0, 0), CoordLine(FLT_MAX, 0)>>),
    File(TRUE, <<CoordLine(0, 0), CoordLine(1, 0), CoordLine(2, 0)>>),
    File(TRUE, <<CoordLine(0, 0), CoordLine(2, 0), CoordLine(2, 2)>>) }

\* coordinate lists of the runs of the search alone: every list of
\* 1..MaxCities points among those of a line and one point off it
GridPoints == {<<x, 0>> : x \in 0..CoordMax} \cup {<<0, CoordMax>>}
CoordLists == UNION {[1..n -> GridPoints] : n \in 1..MaxCities}

\* the search is stopped after this many trials
MaxTrials == BigIter + 1

\* ------------------------------------------------------------------ state
VARIABLES
  pc,          \* position in main
  status,      \* "running", or the exit status: "success", "failure"
  argc,        \* number of command-line items
  optind,      \* number of items getopt has consumed
  strays,      \* number of non-option words getopt has skipped
  nflag, mflag, fflag,
  num_iter,    \* long double
  mode,
  num_cities,
  coord,       \* float **coord
  distance,    \* float **distance
  i,           \* long double
  path,        \* int *path
  len,         \* float
  min_len,     \* float
  min_path,    \* int *min_path
  \* history, for stating the properties
  trials,      \* calls of create_path
  seenMin,     \* least length measure_path has returned, NoLen before any
  firstBest,   \* the tour of the earliest trial that measured seenMin
  sampled,     \* the tours create_path has returned
  pathPrints,  \* calls of print_path in the current trial
  totalPrints, \* calls of print_path
  lastPrint,   \* arguments of the last call of print_path
  repoCalls,   \* calls of print_repo
  repoArg,     \* the min_path handed to print_repo
  badInput,    \* an erroneous item has been read from the command line
  seenOpts     \* the options read from the command line

opts == <<nflag, mflag, fflag, num_iter, mode, num_cities, coord>>
search == <<distance, i, path, len, min_len, min_path>>
hist == <<trials, seenMin, firstBest, sampled>>
sink == <<pathPrints, totalPrints, lastPrint, repoCalls, repoArg>>
cmd == <<argc, optind, strays, badInput, seenOpts>>
vars == <<pc, status, opts, search, hist, sink, cmd>>

\* an indeterminate pointer (declared, never assigned), and a freed one
NoPath == <<>>
Freed == <<-1>>
NoLen == 0 - 1
\* the values an unassigned long double may hold
IndeterminateIter == {0, BigIter}

Init ==
  /\ pc = "getopt" /\ status = "running"
  /\ argc \in 0..MaxArgs /\ optind = 0 /\ strays = 0
  /\ nflag = 0 /\ mflag = 0 /\ fflag = 0
  /\ num_iter \in IndeterminateIter
  /\ mode = 0 /\ num_cities = 0 /\ coord = <<>> /\ distance = <<>>
  /\ i = 0 /\ path = NoPath /\ len = 0 /\ min_len = FLT_MAX /\ min_path = NoPath
  /\ trials = 0 /\ seenMin = NoLen /\ firstBest = NoPath /\ sampled = {}
  /\ pathPrints = 0 /\ totalPrints = 0 /\ lastPrint = <<>>
  /\ repoCalls = 0 /\ repoArg = NoPath
  /\ badInput = FALSE /\ seenOpts = {}

\* exit (EXIT_FAILURE), return 1
Fail == pc' = "exit" /\ status' = "failure"

\* ---------------------------------------------------------- option parsing
\* getopt returns 'n'
GetoptN ==
  /\ pc = "getopt" /\ optind < argc
  /\ \E a \in NArgs :
       /\ nflag' = 1
       /\ IF ~is_integer(a)
            THEN Fail /\ num_iter' = num_iter
            ELSE num_iter' = strtold(atoi(a)) /\ pc' = "getopt" /\ status' = status
       /\ badInput' = (badInput \/ ~a.int)
  /\ optind' = optind + 1
  /\ seenOpts' = seenOpts \cup {"n"}
  /\ UNCHANGED <<mflag, fflag, mode, num_cities, coord, search, hist, sink, argc, strays>>

\* the range check of the mode, off by one
ModeRejected_OffByOne(m) == m > 3

\* if (mode > 2)
ModeRejected(m) == m > 2

\* getopt returns 'm'
GetoptM ==
  /\ pc = "getopt" /\ optind < argc
  /\ \E a \in MArgs :
       /\ mflag' = 1
       /\ IF ~is_positive_number(a)
            THEN Fail /\ mode' = mode
            ELSE /\ mode' = atoi(a)
                 /\ IF ModeRejected(mode') THEN Fail ELSE pc' = "getopt" /\ status' = status
       /\ badInput' = (badInput \/ ~a.num \/ a.val > 2)
  /\ optind' = optind + 1
  /\ seenOpts' = seenOpts \cup {"m"}
  /\ UNCHANGED <<nflag, fflag, num_iter, num_cities, coord, search, hist, sink, argc, strays>>

\* getopt returns 'f'
GetoptF ==
  /\ pc = "getopt" /\ optind < argc
  /\ \E f \in Files :
       /\ fflag' = 1
       /\ num_cities' = read_file(f)
       /\ coord' = IF f.exists /\ num_cities' >= 0 THEN read_file_array(f) ELSE coord
       /\ IF num_cities' = 0 \/ num_cities' = 0 - 1
            THEN Fail
            ELSE pc' = "getopt" /\ status' = status
       /\ badInput' = (badInput \/ ~f.exists \/ \E k \in 1..Len(f.lines) : ~f.lines[k].ok)
  /\ optind' = optind + 1
  /\ seenOpts' = seenOpts \cup {"f"}
  /\ UNCHANGED <<nflag, mflag, num_iter, mode, search, hist, sink, argc, strays>>

\* getopt returns 'h': help (), exit (EXIT_SUCCESS)
GetoptH ==
  /\ pc = "getopt" /\ optind < argc
  /\ pc' = "exit" /\ status' = "success"
  /\ optind' = optind + 1
  /\ seenOpts' = seenOpts \cup {"h"}
  /\ UNCHANGED <<opts, search, hist, sink, argc, strays, badInput>>

\* getopt returns '?': an unknown option, or an option without its argument
GetoptUnknown ==
  /\ pc = "getopt" /\ optind < argc
  /\ Fail
  /\ optind' = optind + 1
  /\ badInput' = TRUE
  /\ UNCHANGED <<opts, search, hist, sink, argc, strays, seenOpts>>

\* getopt meets a word that is no option: it moves it behind the options
GetoptSkip ==
  /\ pc = "getopt" /\ optind < argc
  /\ strays' = strays + 1
  /\ optind' = optind + 1
  /\ badInput' = TRUE
  /\ UNCHANGED <<pc, status, opts, search, hist, sink, argc, seenOpts>>

\* getopt returns -1
GetoptEnd ==
  /\ pc = "getopt" /\ optind = argc
  /\ pc' = "stray"
  /\ UNCHANGED <<status, opts, search, hist, sink, cmd>>

\* for (i = optind; i < argc; i++): any word left is an error (the value
\* the loop leaves in i is overwritten by i = 0 before it is read)
CheckStray ==
  /\ pc = "stray"
  /\ IF strays > 0 THEN Fail ELSE pc' = "guard" /\ status' = status
  /\ UNCHANGED <<opts, search, hist, sink, cmd>>

\* if (num_iter + 1 < num_iter)
CheckOverflow ==
  /\ pc = "guard"
  /\ IF LAdd(num_iter, 1) < num_iter THEN Fail ELSE pc' = "flags" /\ status' = status
  /\ UNCHANGED <<opts, search, hist, sink, cmd>>

\* if (nflag == 0 || mflag == 0 || fflag == 0)
CheckFlags ==
  /\ pc = "flags"
  /\ IF nflag = 0 \/ mflag = 0 \/ fflag = 0
       THEN Fail
       ELSE pc' = "matrix" /\ status' = status
  /\ UNCHANGED <<opts, search, hist, sink, cmd>>

\* ------------------------------------------------------------- the search
\* per-trial output in mode 2 only
Verbose_Mode2Only(m) == m = 2

\* !mode == 0, which C reads as (!mode) == 0
Verbose(m) == (IF m = 0 THEN 1 ELSE 0) = 0

\* srand; distance_matrix (&coord, &distance, num_cities); the heading;
\* i = 0
BuildMatrix ==
  /\ pc = "matrix"
  /\ distance' = distance_matrix(coord, num_cities)
  /\ i' = 0
  /\ pc' = "loop"
  /\ UNCHANGED <<status, opts, path, len, min_len, min_path, hist, sink, cmd>>

\* i < num_iter
LoopTest ==
  /\ pc = "loop"
  /\ pc' = IF i < num_iter THEN "create" ELSE "report"
  /\ UNCHANGED <<status, opts, search, hist, sink, cmd>>

\* create_path (num_cities, &path)
CreatePath ==
  /\ pc = "create"
  /\ trials < MaxTrials
  /\ path' \in create_path(num_cities)
  /\ trials' = trials + 1
  /\ sampled' = sampled \cup {path'}
  /\ pathPrints' = 0
  /\ pc' = "measure"
  /\ UNCHANGED <<status, opts, distance, i, len, min_len, min_path, seenMin,
                 firstBest, totalPrints, lastPrint, repoCalls, repoArg, cmd>>

\* len = measure_path (&distance, num_cities, &path)
MeasurePath ==
  /\ pc = "measure"
  /\ len' = measure_path(distance, num_cities, path)
  /\ IF seenMin = NoLen \/ len' < seenMin
       THEN seenMin' = len' /\ firstBest' = path
       ELSE UNCHANGED <<seenMin, firstBest>>
  /\ pc' = "print"
  /\ UNCHANGED <<status, opts, distance, i, path, min_len, min_path, trials, sampled,
                 sink, cmd>>

\* if (!mode == 0) print_path (&distance, &path, num_cities, len, mode)
PrintPath ==
  /\ pc = "print"
  /\ IF Verbose(mode)
       THEN /\ pathPrints' = pathPrints + 1
            /\ totalPrints' = totalPrints + 1
            /\ lastPrint' = <<path, len>>
       ELSE UNCHANGED <<pathPrints, totalPrints, lastPrint>>
  /\ pc' = "update"
  /\ UNCHANGED <<status, opts, search, hist, repoCalls, repoArg, cmd>>

\* an update that forgets the comparison
Improves_Always(l, m) == TRUE

\* len < min_len
Improves(l, m) == l < m

\* if (len < min_len) { min_len = len; array_copy (&path, &min_path, ...); }
UpdateMin ==
  /\ pc = "update"
  /\ IF Improves(len, min_len)
       THEN min_len' = len /\ min_path' = array_copy(path, num_cities)
       ELSE UNCHANGED <<min_len, min_path>>
  /\ pc' = "free"
  /\ UNCHANGED <<status, opts, distance, i, path, len, hist, sink, cmd>>

\* free (path); i++
FreePath ==
  /\ pc = "free"
  /\ path' = Freed
  /\ i' = LAdd(i, 1)
  /\ pc' = "loop"
  /\ UNCHANGED <<status, opts, distance, len, min_len, min_path, hist, sink, cmd>>

\* print_repo (coord, distance, min_path, num_cities, min_len, num_iter,
\* mode): it reads the tour min_path points to; with min_path never
\* assigned the read is of an indeterminate pointer, and the process is
\* killed or goes on with whatever it read
PrintRepo ==
  /\ pc = "report"
  /\ repoCalls' = repoCalls + 1
  /\ repoArg' = min_path
  /\ \/ pc' = "cleanup"
     \/ min_path = NoPath /\ pc' = "crash"
  /\ UNCHANGED <<status, opts, search, hist, pathPrints, totalPrints, lastPrint, cmd>>

\* free (min_path); free (coord); free (distance); return 0
Cleanup ==
  /\ pc = "cleanup"
  /\ \/ pc' = "exit" /\ status' = "success"
     \/ min_path = NoPath /\ pc' = "crash" /\ status' = status
  /\ UNCHANGED <<opts, search, hist, sink, cmd>>

Parse ==
  \/ GetoptN \/ GetoptM \/ GetoptF \/ GetoptH \/ GetoptUnknown \/ GetoptSkip
  \/ GetoptEnd \/ CheckStray \/ CheckOverflow \/ CheckFlags

Search ==
  \/ BuildMatrix \/ LoopTest \/ CreatePath \/ MeasurePath \/ PrintPath
  \/ UpdateMin \/ FreePath \/ PrintRepo \/ Cleanup

Next == Parse \/ Search

\* the whole program, from any command line
Spec == Init /\ [][Next]_vars

\* The search alone: main from the call of distance_matrix on, the command
\* line having named a trial count, a mode and a file with any of the
\* coordinate lists.
CoreInit ==
  /\ pc = "matrix" /\ status = "running"
  /\ argc = 3 /\ optind = 3 /\ strays = 0
  /\ nflag = 1 /\ mflag = 1 /\ fflag = 1
  /\ num_iter \in {strtold(0), strtold(1)}
  /\ mode \in 0..2
  /\ \E c \in CoordLists :
       /\ num_cities = Len(c)
       /\ coord = [k \in 1..Len(c) |-> <<FloatRound(c[k][1]), FloatRound(c[k][2])>>]
  /\ distance = <<>>
  /\ i = 0 /\ path = NoPath /\ len = 0 /\ min_len = FLT_MAX /\ min_path = NoPath
  /\ trials = 0 /\ seenMin = NoLen /\ firstBest = NoPath /\ sampled = {}
  /\ pathPrints = 0 /\ totalPrints = 0 /\ lastPrint = <<>>
  /\ repoCalls = 0 /\ repoArg = NoPath
  /\ badInput = FALSE /\ seenOpts = {"n", "m", "f"}

CoreSpec == CoreInit /\ [][Search]_vars

\* ------------------------------------------------------------- properties
SearchPcs == {"matrix", "loop", "create", "measure", "print", "update", "free",
              "report", "cleanup", "crash"}
\* the positions at which path holds the tour of the current trial
PathLive == {"measure", "print", "update", "free"}

\* p is a closed tour of n cities: n+1 entries, the first n a permutation of
\* 0..n-1, the last equal to the first
IsTour(p, n) ==
  /\ DOMAIN p = 1..(n + 1)
  /\ \A c \in 0..(n - 1) : Cardinality({k \in 1..n : p[k] = c}) = 1
  /\ p[n + 1] = p[1]

\* the tour p started s cities later, and the tour p walked backwards
Rotated(p, n, s) == [k \in 1..(n + 1) |-> p[((k - 1 + s) % n) + 1]]
Reversed(p, n) == [k \in 1..(n + 1) |-> p[n + 2 - k]]
Variants(p, n) == {Rotated(p, n, s) : s \in 0..(n - 1)} \cup {Reversed(p, n)}

RECURSIVE EdgeSum(_, _, _)
\* the sum in the integers of the first k edges of p
EdgeSum(d, p, k) ==
  IF k = 0 THEN 0 ELSE EdgeSum(d, p, k - 1) + Cell(d, p[k], p[k + 1])

\* no addition of measure_path on p rounds or overflows: every partial sum
\* is a finite float
Exact(d, n, p) ==
  \A k \in 0..n : EdgeSum(d, p, k) <= FLT_MAX /\ FloatRound(EdgeSum(d, p, k)) = EdgeSum(d, p, k)

\* C1: when the loop of a run with N >= 1 cities and T >= 1 trials has
\* finished, min_len is the least length measured over the sampled tours and
\* min_path is one of the sampled tours, a closed permutation tour whose
\* measured length is min_len.
C1_BestOfAllTrials ==
  (pc = "report" /\ num_cities >= 1 /\ num_iter >= 1) =>
    /\ min_len = seenMin
    /\ min_path \in sampled
    /\ IsTour(min_path, num_cities)
    /\ measure_path(distance, num_cities, min_path) = min_len

\* C2: after the update of any trial, min_path is the tour of the earliest
\* trial that measured the least length so far: only a strictly shorter tour
\* replaces the incumbent, an equally long later one never does.
C2_EarliestMinimumKept ==
  pc = "free" => (min_path = firstBest /\ min_len = seenMin)

\* C3: in a run with T = 0 the final report is never handed a best tour that
\* was never assigned, and the run does not crash.
C3_NoTrialsNoPhantomTour ==
  (pc \in SearchPcs /\ num_iter = 0) =>
    /\ repoCalls > 0 => repoArg # NoPath
    /\ pc # "crash"

\* C4: once T has passed the checks, the counter i advances with every
\* trial, so that the loop runs exactly T trials: never more than T, and T
\* when it has finished.
C4_ExactlyTTrials ==
  /\ pc = "loop" => i = trials
  /\ pc \in SearchPcs => trials <= num_iter
  /\ pc = "report" => trials = num_iter

C6_ToursAreClosedPermutations ==
  pc \in PathLive =>
    /\ IsTour(path, num_cities)
    /\ \A k \in 0..(num_cities - 1) :
         /\ path[k + 1] \in 0..(num_cities - 1)
         /\ path[k + 2] \in 0..(num_cities - 1)
         /\ path[k + 1] + 1 \in DOMAIN distance
         /\ path[k + 2] + 1 \in DOMAIN distance[path[k + 1] + 1]

C6_Witness ==
  pc = "measure" /\ num_cities = 3 /\ path = <<2, 0, 1, 2>>

\* C7: print_path is called at most once per trial, never in mode 0 and
\* exactly once per trial in modes 1 and 2, with the trial's tour and its
\* measured length, before the tour is freed; print_repo is called once,
\* after the last trial.
C7_SinkCalls ==
  /\ pc \in SearchPcs =>
       /\ mode \in 0..2
       /\ pathPrints <= 1
       /\ mode = 0 => totalPrints = 0
       /\ (mode \in {1, 2} /\ pc \in {"update", "free"}) =>
            /\ pathPrints = 1
            /\ lastPrint = <<path, len>>
            /\ path \in sampled
            /\ len = measure_path(distance, num_cities, path)
       /\ (mode \in {1, 2} /\ pc \in {"loop", "report", "cleanup"}) => totalPrints = trials
       /\ (mode \in {1, 2} /\ pc \in {"measure", "print"}) =>
            (pathPrints = 0 /\ totalPrints = trials - 1)
       /\ repoCalls = (IF pc \in {"cleanup", "crash"} THEN 1 ELSE 0)
  /\ (pc = "exit" /\ status = "success" /\ "h" \notin seenOpts) =>
       /\ repoCalls = 1
       /\ mode \in {1, 2} => totalPrints = trials
       /\ mode = 0 => totalPrints = 0

C7_Witness ==
  pc = "exit" /\ status = "success" /\ mode = 2 /\ trials = 2
    /\ totalPrints = 2 /\ repoCalls = 1

\* C8: no step of the program raises min_len.
C8_BestLengthNeverWorsens == [][min_len' <= min_len]_vars

C8_Witness ==
  pc = "free" /\ trials >= 2 /\ min_len = len /\ min_path = path
    /\ \E q \in sampled : measure_path(distance, num_cities, q) > min_len

\* C9: from distance_matrix on, the table has a row and a column for every
\* city, is symmetric, has a zero diagonal and no negative entry, and is
\* still the table computed from the coordinates: nothing writes it again.
C9_DistanceTable ==
  (pc \in SearchPcs /\ pc # "matrix") =>
    /\ DOMAIN distance = 1..num_cities
    /\ \A a \in 1..num_cities : DOMAIN distance[a] = 1..num_cities
    /\ \A a, b \in 1..num_cities :
         /\ distance[a][b] = distance[b][a]
         /\ distance[a][a] = 0
         /\ distance[a][b] >= 0
         /\ distance[a][b] \in FloatVals
    /\ distance = distance_matrix(coord, num_cities)

C9_Witness ==
  pc = "free" /\ num_cities = 3 /\ trials = 1
    /\ distance[1][2] # 0 /\ distance[1][3] # distance[1][2]

====
